---- MODULE Spec2Model ----
(***************************************************************************)
(* Model of src/yolo_loss.py: intersection_over_union and YoloLoss.        *)
(*                                                                         *)
(* Number representation.  The program computes on real-valued tensors.    *)
(* The model uses exact fixed-point arithmetic:                            *)
(*   - box entries (x, y, w, h of predictions and targets) are integers    *)
(*     counting units of 1e-6, so the literal 1e-6 is the integer 1;       *)
(*   - a product of two such numbers (an area, a squared difference)       *)
(*     counts units of 1e-12, where the literal 1e-6 is Scale;             *)
(*   - objectness entries are whole numbers (unit 1);                      *)
(*   - a quotient is kept as an exact fraction [num, den];                 *)
(*   - the returned loss is [units, fine, den], standing for               *)
(*     (units + fine * 1e-12) / den.                                       *)
(* The only rounding is in Sqrt, which rounds down to a multiple of 1e-6.  *)
(***************************************************************************)
EXTENDS Integers, Sequences, FiniteSets, TLC

VARIABLES
    \* ---- YoloLoss ----
    self,             \* the module's attributes: S, B, lambda_noobj, lambda_coord
    predictions,      \* the caller's predictions tensor, shape (N, S*S*B*5)
    target,           \* the caller's target tensor, shape (N*S*S, 5) (cells in row-major order)
    box_predictions,  \* tensor created at line 69, after the in-place write of line 73
    box_targets,      \* tensor created at line 77, after the in-place write of line 78
    bestbox,          \* per cell, the index torch.max returned (line 63)
    box_loss, object_loss, no_object_loss,   \* the three mse terms of the last call
    loss,             \* the value the last call returned
    pc,               \* "idle": tensors handed over, call not made; "returned": call returned
    calls,            \* number of forward calls made so far
    args,             \* the two tensors as they were when the last call was made
    \* ---- intersection_over_union ----
    boxes_preds, boxes_labels, box_format,   \* the arguments of the call
    iou,              \* the value the call returned, as a fraction
    iou_pc            \* "idle" / "returned"

vars == <<self, predictions, target, box_predictions, box_targets, bestbox,
          box_loss, object_loss, no_object_loss, loss, pc, calls, args,
          boxes_preds, boxes_labels, box_format, iou, iou_pc>>

yolo_vars == <<self, predictions, target, box_predictions, box_targets, bestbox,
               box_loss, object_loss, no_object_loss, loss, pc, calls, args>>

iou_vars == <<boxes_preds, boxes_labels, box_format, iou, iou_pc>>

(***************************************************************************)
(* Bounds of the model.                                                    *)
(***************************************************************************)
MaxN == 2        \* largest batch size
MaxS == 2        \* largest grid size S
MaxCells == 8    \* largest number of grid cells in a batch, N * S * S
MaxCalls == 2    \* forward calls per behaviour

\* Box counts B the module is constructed with.  B = 1 is left out: forward raises
\* there (torch.cat of an (…,1) and an (…,0) tensor at line 62) and returns nothing.
BoxCounts == {2, 3}

(***************************************************************************)
(* Fixed-point scale and the literal 1e-6.                                 *)
(***************************************************************************)
Scale == 10^6           \* units of 1e-6 per 1.0
Eps == 1                \* 1e-6 added to a width/height (line 74)
EpsArea == Eps * Scale  \* 1e-6 added to an area (line 46), in units of 1e-12

(***************************************************************************)
(* Elementwise torch operations on numbers.                                *)
(***************************************************************************)
Max(a, b) == IF a >= b THEN a ELSE b
Min(a, b) == IF a <= b THEN a ELSE b
Abs(v) == IF v < 0 THEN -v ELSE v

\* a sign that takes 0 for positive
SignNoZero(v) == IF v < 0 THEN -1 ELSE 1
\* torch.sign
Sign(v) == IF v > 0 THEN 1 ELSE IF v < 0 THEN -1 ELSE 0

\* the span left as it is, negative or not
ClampNone(v) == v
\* tensor.clamp(0): lower bound 0
Clamp0(v) == IF v < 0 THEN 0 ELSE v

\* largest r in lo..hi with r*r <= x (lo*lo <= x assumed)
RECURSIVE ISqrtIn(_, _, _)
ISqrtIn(x, lo, hi) ==
    IF lo >= hi THEN lo
    ELSE LET mid == (lo + hi + 1) \div 2
         IN IF mid <= x \div mid THEN ISqrtIn(x, mid, hi) ELSE ISqrtIn(x, lo, mid - 1)

\* torch.sqrt of a >= 0 given in units of 1e-6; result in units of 1e-6, rounded down.
\* (a < 0 would give nan; forward only takes the root of |.| and of target w, h >= 0.)
Sqrt(a) == ISqrtIn(a * Scale, 0, a * Scale)

\* comparison of two fractions with positive denominators
FracGt(a, b) == a.num * b.den > b.num * a.den

(***************************************************************************)
(* intersection_over_union on one pair of boxes (the code applies it       *)
(* elementwise over the leading dimensions).  Corner coordinates are kept  *)
(* doubled, so that cx - w/2 is exact: all lengths below are 2x, all areas *)
(* 4x, and the 1e-6 of the denominator is 4 * EpsArea.                     *)
(***************************************************************************)
\* lines 15-33: <<x1, y1, x2, y2>> of a box, doubled
Corners(box, fmt) ==
    IF fmt = "midpoint"
    THEN << 2 * box[1] - box[3], 2 * box[2] - box[4],
            2 * box[1] + box[3], 2 * box[2] + box[4] >>
    ELSE << 2 * box[1], 2 * box[2], 2 * box[3], 2 * box[4] >>

\* line 41
Intersection(b1, b2) ==
    LET x1 == Max(b1[1], b2[1])
        y1 == Max(b1[2], b2[2])
        x2 == Min(b1[3], b2[3])
        y2 == Min(b1[4], b2[4])
    IN Clamp0(x2 - x1) * Clamp0(y2 - y1)

\* lines 43-44
BoxArea(b) == Abs((b[3] - b[1]) * (b[4] - b[2]))

intersection_over_union(bp, bl, fmt) ==
    LET b1 == Corners(bp, fmt)
        b2 == Corners(bl, fmt)
        intersection == Intersection(b1, b2)
    IN [num |-> intersection,
        den |-> BoxArea(b1) + BoxArea(b2) - intersection + 4 * EpsArea]

(***************************************************************************)
(* Specification of intersection_over_union as a pure function: Init draws *)
(* the arguments, IoUCall applies the function.                            *)
(***************************************************************************)
IoUXY == {0, 1, 3}
IoUWH == {-2, 0, 1, 2}
IoUBoxes == {<<x, y, w, h>> : x \in IoUXY, y \in IoUXY, w \in IoUWH, h \in IoUWH}
   \cup {<<0, 0, 1000, 1000>>, <<3, 3, 1, 1>>, <<2, 2, 0, 0>>, <<0, 0, 2, 2>>, <<10, 10, 2, 2>>}
Formats == {"midpoint", "corners"}

IoUInit ==
    /\ boxes_preds \in IoUBoxes
    /\ boxes_labels \in IoUBoxes
    /\ box_format \in Formats
    /\ iou = [num |-> 0, den |-> 1]
    /\ iou_pc = "idle"

IoUCall ==
    /\ iou_pc = "idle"
    /\ iou' = intersection_over_union(boxes_preds, boxes_labels, box_format)
    /\ iou_pc' = "returned"
    /\ UNCHANGED <<boxes_preds, boxes_labels, box_format>>

(***************************************************************************)
(* Tensors with storage.  A store maps a tensor name to its data; a cells  *)
(* x K tensor is a sequence (one entry per grid cell of the batch, in      *)
(* row-major order) of sequences of length K.  A reference [base, off] is  *)
(* a view of columns off+1.. of the tensor `base`: slicing returns a view, *)
(* an out-of-place operation a new tensor, and an indexed assignment       *)
(* writes through the reference into the storage it views.                 *)
(***************************************************************************)
View(name, off) == [base |-> name, off |-> off]

\* a cells x K tensor given as a function, as a sequence of sequences (same value)
Tensor(f) ==
    LET rows == [c \in 1..Len(f) |-> SubSeq(f[c], 1, Len(f[c]))]
    IN SubSeq(rows, 1, Len(rows))

\* the K columns a reference views
ReadView(st, ref, K) ==
    Tensor([c \in 1..Len(st[ref.base]) |-> [k \in 1..K |-> st[ref.base][c][ref.off + k]]])

\* exists_box * <4 columns viewed by ref>, computed into the storage ref views
\* (what `ref.mul_(exists_box)`, or a plain view without the product, would share with ref)
MulInPlace(st, name, exists_box, ref) ==
    [st |-> [st EXCEPT ![ref.base] =
                Tensor([c \in 1..Len(@) |->
                    [k \in 1..Len(@[c]) |->
                        IF k - ref.off \in 1..4 THEN exists_box[c] * @[c][k] ELSE @[c][k]]])],
     ref |-> ref]

\* lines 69, 77: exists_box * <4 columns viewed by ref> is a new tensor, bound to `name`
MulNew(st, name, exists_box, ref) ==
    [st |-> [st EXCEPT ![name] =
                Tensor([c \in 1..Len(st[ref.base]) |->
                    [k \in 1..4 |-> exists_box[c] * st[ref.base][c][ref.off + k]]])],
     ref |-> View(name, 0)]

\* lines 73, 78: t[..., 2:4] = vals, through the reference
SetWH(st, ref, vals) ==
    [st EXCEPT ![ref.base] =
        Tensor([c \in 1..Len(@) |->
            [k \in 1..Len(@[c]) |->
                IF k - ref.off \in 3..4 THEN vals[c][k - ref.off - 2] ELSE @[c][k]]])]

(***************************************************************************)
(* YoloLoss                                                                *)
(***************************************************************************)
lambda_noobj_value == [num |-> 1, den |-> 2]   \* 0.5
lambda_coord_value == 5

\* __init__
YoloLoss_init(S, B) ==
    [S |-> S, B |-> B, lambda_noobj |-> lambda_noobj_value, lambda_coord |-> lambda_coord_value]

\* predictions.reshape(-1, S, S, B * 5): cells x (B*5), reading the flat storage in order
Reshape(p, S, B) ==
    LET L == Len(p[1])
        total == Len(p) * L
        K == B * 5
        at(g) == p[(g \div L) + 1][(g % L) + 1]
    IN Tensor([c \in 1..(total \div K) |-> [k \in 1..K |-> at((c - 1) * K + (k - 1))]])

RECURSIVE SumTo(_, _)
SumTo(f, n) == IF n = 0 THEN 0 ELSE f[n] + SumTo(f, n - 1)

\* nn.MSELoss(reduction = 'sum') on two cells x K tensors
mse(input, tgt) ==
    SumTo([c \in 1..Len(input) |->
            SumTo([k \in 1..Len(input[c]) |-> (input[c][k] - tgt[c][k]) * (input[c][k] - tgt[c][k])],
                  Len(input[c]))], Len(input))

\* lines 122-129 with the minus sign of a slip in the no-object term
TotalLossMinus(slf, bl, ol, nl, shape0) ==
    [units |-> slf.lambda_noobj.den * ol - slf.lambda_noobj.num * nl,
     fine  |-> slf.lambda_noobj.den * slf.lambda_coord * bl,
     den   |-> slf.lambda_noobj.den * shape0]

\* lines 122-129 dividing by the number of cells instead of the batch size
TotalLossPerCell(slf, bl, ol, nl, shape0) ==
    [units |-> slf.lambda_noobj.den * ol + slf.lambda_noobj.num * nl,
     fine  |-> slf.lambda_noobj.den * slf.lambda_coord * bl,
     den   |-> slf.lambda_noobj.den * shape0 * slf.S * slf.S]

\* lines 122-129: (lambda_coord * box_loss + object_loss + lambda_noobj * no_object_loss)
\* / predictions.shape[0], numerator and denominator multiplied by lambda_noobj's
\* denominator; box_loss counts units of 1e-12, the other two whole units
TotalLoss(slf, bl, ol, nl, shape0) ==
    [units |-> slf.lambda_noobj.den * ol + slf.lambda_noobj.num * nl,
     fine  |-> slf.lambda_noobj.den * slf.lambda_coord * bl,
     den   |-> slf.lambda_noobj.den * shape0]

\* line 73-75 as sign(v) * sqrt(|v| + 1e-6)
SqrtPredAbsFirst(v) == Sign(v) * Sqrt(Abs(v) + Eps)

\* line 73-75 without the 1e-6
SqrtPredNoEps(v) == Sign(v) * Sqrt(Abs(v))

\* lines 73-75: torch.sign(v) * torch.sqrt(torch.abs(v + 1e-6))
SqrtPred(v) == Sign(v) * Sqrt(Abs(v + Eps))

\* line 63: index of the maximum of <<iou_b1, iou_b2>>, the first one on ties
ArgMax(iou_b1, iou_b2) == IF FracGt(iou_b2, iou_b1) THEN 1 ELSE 0

\* line 104/109 without the (1 - exists_box) mask
NoObjMaskNone(exists_box, v) == v

\* lines 104-110: (1 - exists_box) * v
NoObjMask(exists_box, v) == (1 - exists_box) * v

\* forward(predictions, target) on the store st0 holding the caller's tensors:
\* the store after the call and every value the call computes
forward(slf, st0) ==
    LET preds == Reshape(st0.predictions, slf.S, slf.B)                       \* line 59
        tgt == st0.target
        Cells == 1..Len(preds)
        iou_b1 == [c \in Cells |->
                    intersection_over_union(SubSeq(preds[c], 2, 5), SubSeq(tgt[c], 2, 5), "midpoint")]
        iou_b2 == [c \in Cells |->
                    intersection_over_union(SubSeq(preds[c], 7, 10), SubSeq(tgt[c], 2, 5), "midpoint")]
        best == SubSeq([c \in Cells |-> ArgMax(iou_b1[c], iou_b2[c])], 1, Len(preds))   \* lines 62-63
        exists_box == SubSeq([c \in Cells |-> tgt[c][1]], 1, Len(preds))          \* line 64
        \* lines 70-71: the gated sum, a new tensor
        st1 == [st0 EXCEPT !.box_predictions =
                   Tensor([c \in Cells |-> [k \in 1..4 |->
                       best[c] * preds[c][6 + k] + (1 - best[c]) * preds[c][1 + k]]])]
        m1 == MulNew(st1, "box_predictions", exists_box, View("box_predictions", 0))   \* line 69
        bp0 == ReadView(m1.st, m1.ref, 4)
        st2 == SetWH(m1.st, m1.ref,
                     [c \in Cells |-> <<SqrtPred(bp0[c][3]), SqrtPred(bp0[c][4])>>])      \* lines 73-75
        m2 == MulNew(st2, "box_targets", exists_box, View("target", 1))             \* line 77
        bt0 == ReadView(m2.st, m2.ref, 4)
        st3 == SetWH(m2.st, m2.ref,
                     [c \in Cells |-> <<Sqrt(bt0[c][3]), Sqrt(bt0[c][4])>>])              \* line 78
        bl == mse(ReadView(st3, m1.ref, 4), ReadView(st3, m2.ref, 4))           \* lines 81-84
        pred_box == [c \in Cells |->
                       best[c] * preds[c][6] + (1 - best[c]) * preds[c][1]]          \* lines 89-91
        ol == mse([c \in Cells |-> <<exists_box[c] * pred_box[c]>>],
                  [c \in Cells |-> <<exists_box[c] * st3.target[c][1]>>])             \* lines 94-97
        nl == mse([c \in Cells |-> <<NoObjMask(exists_box[c], preds[c][1])>>],
                  [c \in Cells |-> <<NoObjMask(exists_box[c], st3.target[c][1])>>])   \* lines 103-106
              + mse([c \in Cells |-> <<NoObjMask(exists_box[c], preds[c][6])>>],
                    [c \in Cells |-> <<NoObjMask(exists_box[c], st3.target[c][1])>>]) \* lines 108-111
        shape0 == Len(preds) \div (slf.S * slf.S)
    IN [st |-> st3,
        box_predictions |-> ReadView(st3, m1.ref, 4),
        box_targets |-> ReadView(st3, m2.ref, 4),
        bestbox |-> best,
        box_loss |-> bl, object_loss |-> ol, no_object_loss |-> nl,
        loss |-> TotalLoss(slf, bl, ol, nl, shape0)]                            \* lines 122-129

(***************************************************************************)
(* Inputs.  A box is <<objectness, x, y, w, h>>.  A batch has one freely   *)
(* chosen cell (every combination of the boxes below) at its last          *)
(* position; the other cells repeat one background cell.                   *)
(***************************************************************************)
TargetCells ==
    { <<0, 0, 0, 0, 0>>,      \* no object
      <<0, 1, 1, 2, 2>>,      \* no object, coordinates left in place
      <<1, 0, 0, 4, 4>>,      \* object
      <<1, 1, 1, 0, 2>> }     \* object of zero width

PredBoxes ==
    TargetCells \cup
    { <<-1, 1, 0, -2, -1>>,   \* negative objectness, width and height
      <<2, 10, 10, 2, 2>>,    \* far from every target box
      <<1, 1, 1, 4, 2>> }     \* overlaps the object boxes partly

\* boxes 2.. of a cell when B > 2
ExtraBoxes == { <<1, 0, 0, 4, 4>>, <<-1, 1, 0, -2, -1>> }

CellOf(b0, b1, bx, t, B) == [p |-> <<b0, b1>> \o [i \in 1..(B - 2) |-> bx], t |-> t]

FgCells(B) ==
    {CellOf(b0, b1, bx, t, B) : b0 \in PredBoxes, b1 \in PredBoxes, bx \in ExtraBoxes, t \in TargetCells}

BgCells(B) ==
    { CellOf(<<1, 0, 0, 4, 4>>, <<1, 0, 0, 4, 4>>, <<1, 0, 0, 4, 4>>, <<1, 0, 0, 4, 4>>, B),
      CellOf(<<-1, 1, 0, -2, -1>>, <<2, 10, 10, 2, 2>>, <<-1, 1, 0, -2, -1>>, <<0, 0, 0, 0, 0>>, B) }

\* the cells of a batch: fg in the last position, bg elsewhere
BatchCells(n, S, fg, bg) == [c \in 1..(n * S * S) |-> IF c = n * S * S THEN fg ELSE bg]

\* the predictions tensor (N, S*S*B*5) holding the cells' boxes
PredictionsOf(cells, n, S, B) ==
    [i \in 1..n |->
        [f \in 1..(S * S * B * 5) |->
            LET c == (i - 1) * S * S + ((f - 1) \div (B * 5)) + 1
                k == (f - 1) % (B * 5)
            IN cells[c].p[(k \div 5) + 1][(k % 5) + 1]]]

\* the target tensor holding the cells' ground truth
TargetOf(cells) == [c \in 1..Len(cells) |-> cells[c].t]

ZeroLoss == [units |-> 0, fine |-> 0, den |-> 1]

YoloInit ==
    /\ \E S \in 1..MaxS, B \in BoxCounts : self = YoloLoss_init(S, B)
    /\ \E n \in 1..MaxN, fg \in FgCells(self.B), bg \in BgCells(self.B) :
          LET cells == BatchCells(n, self.S, fg, bg)
          IN /\ n * self.S * self.S <= MaxCells
             /\ predictions = PredictionsOf(cells, n, self.S, self.B)
             /\ target = TargetOf(cells)
    /\ box_predictions = <<>>
    /\ box_targets = <<>>
    /\ bestbox = <<>>
    /\ box_loss = 0
    /\ object_loss = 0
    /\ no_object_loss = 0
    /\ loss = ZeroLoss
    /\ pc = "idle"
    /\ calls = 0
    /\ args = <<>>

\* loss_func(predictions, target)
Forward ==
    /\ pc = "idle"
    /\ \E r \in {forward(self, [predictions |-> predictions, target |-> target,
                                 box_predictions |-> <<>>, box_targets |-> <<>>])} :
          /\ predictions' = r.st.predictions
          /\ target' = r.st.target
          /\ box_predictions' = r.box_predictions
          /\ box_targets' = r.box_targets
          /\ bestbox' = r.bestbox
          /\ box_loss' = r.box_loss
          /\ object_loss' = r.object_loss
          /\ no_object_loss' = r.no_object_loss
          /\ loss' = r.loss
    /\ pc' = "returned"
    /\ calls' = calls + 1
    /\ args' = <<predictions, target>>
    /\ UNCHANGED self

\* the caller gets ready to call again with the same two tensors
CallAgain ==
    /\ pc = "returned"
    /\ calls < MaxCalls
    /\ pc' = "idle"
    /\ UNCHANGED <<self, predictions, target, box_predictions, box_targets, bestbox,
                   box_loss, object_loss, no_object_loss, loss, calls, args>>

\* the caller gets ready to call again with another batch: the first image alone
NextBatch ==
    /\ pc = "returned"
    /\ calls < MaxCalls
    /\ Len(predictions) > 1
    /\ predictions' = <<predictions[1]>>
    /\ target' = SubSeq(target, 1, self.S * self.S)
    /\ pc' = "idle"
    /\ UNCHANGED <<self, box_predictions, box_targets, bestbox,
                   box_loss, object_loss, no_object_loss, loss, calls, args>>

IoUUnused ==
    /\ boxes_preds = <<0, 0, 0, 0>>
    /\ boxes_labels = <<0, 0, 0, 0>>
    /\ box_format = "midpoint"
    /\ iou = [num |-> 0, den |-> 1]
    /\ iou_pc = "unused"

YoloUnused ==
    /\ self = YoloLoss_init(1, 2)
    /\ predictions = <<>>
    /\ target = <<>>
    /\ box_predictions = <<>>
    /\ box_targets = <<>>
    /\ bestbox = <<>>
    /\ box_loss = 0
    /\ object_loss = 0
    /\ no_object_loss = 0
    /\ loss = ZeroLoss
    /\ pc = "unused"
    /\ calls = 0
    /\ args = <<>>

Init == YoloInit /\ IoUUnused

Next ==
    \/ Forward /\ UNCHANGED iou_vars
    \/ CallAgain /\ UNCHANGED iou_vars
    \/ NextBatch /\ UNCHANGED iou_vars

Spec == Init /\ [][Next]_vars

InitIoU == IoUInit /\ YoloUnused

NextIoU == IoUCall /\ UNCHANGED yolo_vars

SpecIoU == InitIoU /\ [][NextIoU]_vars

(***************************************************************************)
(* Properties.  The definitions below read the caller's tensors cell by    *)
(* cell, independently of the tensor operations of forward.                *)
(***************************************************************************)
NumCells == Len(target)
BatchSize == Len(predictions)
Returned == pc = "returned"

\* entry k (1..B*5) of grid cell c, read from the flat predictions tensor
PredAt(c, k) ==
    predictions[((c - 1) \div (self.S * self.S)) + 1]
               [((c - 1) % (self.S * self.S)) * self.B * 5 + k]

\* candidate box j (0-based) of cell c: <<objectness, x, y, w, h>>
PredBox(c, j) == <<PredAt(c, 5 * j + 1), PredAt(c, 5 * j + 2), PredAt(c, 5 * j + 3),
                   PredAt(c, 5 * j + 4), PredAt(c, 5 * j + 5)>>

HasObject(c) == target[c][1] = 1
Sq(d) == d * d
SumCells(f) == SumTo(f, NumCells)

\* IoU of candidate box j of cell c against the cell's ground-truth box
IoUOf(c, j) ==
    intersection_over_union(SubSeq(PredBox(c, j), 2, 5), SubSeq(target[c], 2, 5), "midpoint")

\* the box forward selected in cell c
Selected(c) == PredBox(c, bestbox[c])

LossIsZero == loss.units = 0 /\ loss.fine = 0
\* (units + fine * 1e-12) / den >= 0, where |fine * 1e-12| < 1
LossNonNegative ==
    loss.den > 0 /\ (loss.units > 0 \/ (loss.units = 0 /\ loss.fine >= 0))

\* sum over the no-object cells of the squares of both raw objectness scores
RawNoObjectSum ==
    SumCells([c \in 1..NumCells |->
                IF HasObject(c) THEN 0 ELSE Sq(PredAt(c, 1)) + Sq(PredAt(c, 6))])

\* C1: every call returns a loss >= 0, whatever the signs of the predictions,
\* for valid targets (objectness 0 or 1, w and h >= 0) and every batch size.
C1_LossNonNegative == Returned => LossNonNegative

\* a returned call whose selected box has a negative width and a negative
\* objectness in an object cell, in a batch of more than one image
C1_Witness ==
    /\ Returned
    /\ BatchSize > 1
    /\ \E c \in 1..NumCells :
          HasObject(c) /\ Selected(c)[4] < 0 /\ Selected(c)[1] < 0 /\ PredAt(c, 2) > 0
    /\ loss.units > 0 /\ loss.fine > 0

AllNoObject == \A c \in 1..NumCells : target[c][1] = 0

\* C2: with no object in any cell, box_loss and object_loss are exactly 0 (the
\* transformed width/height entries included) and the loss is
\* lambda_noobj * no_object_loss / N, no_object_loss being the sum of the squares of
\* both raw objectness scores over all cells.
C2_NoObjectsAnywhere ==
    (Returned /\ AllNoObject) =>
        /\ box_loss = 0
        /\ object_loss = 0
        /\ \A c \in 1..NumCells :
              box_predictions[c] = <<0, 0, 0, 0>> /\ box_targets[c] = <<0, 0, 0, 0>>
        /\ loss.fine = 0
        \* units / den = (1/2) * RawNoObjectSum / N
        /\ loss.units * 2 * BatchSize = RawNoObjectSum * loss.den

\* no object anywhere, yet non-zero predicted widths (one negative), non-zero target
\* coordinates and non-zero objectness scores
C2_Witness ==
    /\ Returned /\ AllNoObject
    /\ NumCells > 1
    /\ \E c \in 1..NumCells : PredAt(c, 4) < 0 /\ PredAt(c, 9) > 0 /\ target[c][4] > 0
    /\ loss.units > 0

\* both predicted boxes of every cell equal the cell's target
Perfect == \A c \in 1..NumCells : PredBox(c, 0) = target[c] /\ PredBox(c, 1) = target[c]

\* what the 1e-6 under the root of a prediction leaves between sqrt(v + 1e-6) and sqrt(v)
Gap(v) == IF v > 0 THEN Sqrt(v + Eps) - Sqrt(v) ELSE 0
GapSum ==
    SumCells([c \in 1..NumCells |->
                IF HasObject(c) THEN Sq(Gap(target[c][4])) + Sq(Gap(target[c][5])) ELSE 0])
ObjectCells == {c \in 1..NumCells : HasObject(c)}

\* C3 as stated: a perfect prediction gives a total loss of 0.
C3_PerfectIsZero == (Returned /\ Perfect) => LossIsZero

\* C3 as amended: a perfect prediction gives object and no-object terms of 0 and
\* loss = lambda_coord * box_loss / N, where box_loss is the sum over the object cells
\* of (sqrt(w + 1e-6) - sqrt(w))^2 for w > 0 plus the same for h; that is at most
\* 2 * 1e-6 per object cell, and 0 when w = h = 0 in every object cell.
C3_PerfectUpToEps ==
    (Returned /\ Perfect) =>
        /\ object_loss = 0
        /\ no_object_loss = 0
        /\ box_loss = GapSum
        /\ box_loss <= 2 * EpsArea * Cardinality(ObjectCells)
        /\ loss.units = 0
        \* fine / den = 5 * box_loss / N
        /\ loss.fine * BatchSize = 5 * box_loss * loss.den
        /\ (\A c \in ObjectCells : target[c][4] = 0 /\ target[c][5] = 0) => LossIsZero

\* a perfect prediction with an object of positive width, and a loss that is not 0
C3_Witness ==
    /\ Returned /\ Perfect
    /\ \E c \in ObjectCells : target[c][4] > 0
    /\ loss.fine > 0

(***************************************************************************)
(* Properties of intersection_over_union (specification SpecIoU).          *)
(***************************************************************************)
IoUReturned == iou_pc = "returned"

\* width and height of a box as its format gives them
WidthOf(box, fmt) == IF fmt = "midpoint" THEN box[3] ELSE box[3] - box[1]
HeightOf(box, fmt) == IF fmt = "midpoint" THEN box[4] ELSE box[4] - box[2]
NonDegenerate(box, fmt) == WidthOf(box, fmt) # 0 /\ HeightOf(box, fmt) # 0

\* the interval a box covers on the x axis and on the y axis (doubled, like Corners)
XLo(box, fmt) == Min(Corners(box, fmt)[1], Corners(box, fmt)[3])
XHi(box, fmt) == Max(Corners(box, fmt)[1], Corners(box, fmt)[3])
YLo(box, fmt) == Min(Corners(box, fmt)[2], Corners(box, fmt)[4])
YHi(box, fmt) == Max(Corners(box, fmt)[2], Corners(box, fmt)[4])
XDisjoint(a, b, fmt) == XHi(a, fmt) <= XLo(b, fmt) \/ XHi(b, fmt) <= XLo(a, fmt)
YDisjoint(a, b, fmt) == YHi(a, fmt) <= YLo(b, fmt) \/ YHi(b, fmt) <= YLo(a, fmt)

\* C4: the IoU of a non-degenerate box (non-zero width and height) with itself is 1.0
\* within the epsilon tolerance, in both formats: the quotient falls short of 1 by no
\* more than the 1e-6 of its denominator, den - num <= 1e-6.
C4_SelfIoUIsOne ==
    (IoUReturned /\ boxes_preds = boxes_labels /\ NonDegenerate(boxes_preds, box_format)) =>
        iou.den - iou.num <= 4 * EpsArea

\* C5: two boxes whose x-ranges or y-ranges are disjoint have an IoU of exactly 0.
C5_DisjointIsZero ==
    (IoUReturned /\ (XDisjoint(boxes_preds, boxes_labels, box_format)
                     \/ YDisjoint(boxes_preds, boxes_labels, box_format))) =>
        iou.num = 0 /\ iou.den > 0

\* two boxes of positive width and height apart on both axes: both spans are negative
C5_Witness ==
    /\ IoUReturned
    /\ WidthOf(boxes_preds, box_format) > 0 /\ HeightOf(boxes_preds, box_format) > 0
    /\ WidthOf(boxes_labels, box_format) > 0 /\ HeightOf(boxes_labels, box_format) > 0
    /\ XHi(boxes_preds, box_format) < XLo(boxes_labels, box_format)
    /\ YHi(boxes_preds, box_format) < YLo(boxes_labels, box_format)
    /\ iou.num = 0

(***************************************************************************)
(* Properties of YoloLoss, continued (specification Spec).                 *)
(***************************************************************************)
ForwardStep == pc = "idle" /\ pc' = "returned"

\* C6: a forward call changes neither the module's attributes nor the caller's two
\* tensors (the in-place writes land in tensors created inside the call), and a call
\* on the tensors of the previous call returns the same loss.
C6_NoMutation ==
    [][ /\ self' = self
        /\ self = YoloLoss_init(self.S, self.B)
        /\ ForwardStep => (predictions' = predictions /\ target' = target)
        /\ (ForwardStep /\ args = <<predictions, target>>) => loss' = loss ]_vars

\* a second call has returned, after in-place writes that changed a width of
\* box_targets and of box_predictions away from the caller's values
C6_Witness ==
    /\ Returned
    /\ calls >= 2
    /\ args = <<predictions, target>>
    /\ \E c \in 1..NumCells :
          /\ HasObject(c)
          /\ target[c][4] > 0
          /\ box_targets[c][3] # target[c][4]
          /\ box_predictions[c][3] # Selected(c)[4]

\* the candidate box of cell c, among the B configured, with the highest IoU against
\* the ground truth, the lowest index on ties
BestOfB(c) ==
    CHOOSE j \in 0..(self.B - 1) :
        \A k \in 0..(self.B - 1) :
            /\ ~FracGt(IoUOf(c, k), IoUOf(c, j))
            /\ k < j => FracGt(IoUOf(c, j), IoUOf(c, k))

\* C7: in every object cell the box whose coordinates enter box_loss and whose
\* objectness enters object_loss is the one of the cell's B candidate boxes with the
\* highest IoU against the ground truth (index 0 on ties with box 1), and no other.
C7_BestOfAllCandidates ==
    Returned =>
        /\ \A c \in ObjectCells :
              /\ box_predictions[c][1] = PredBox(c, BestOfB(c))[2]
              /\ box_predictions[c][2] = PredBox(c, BestOfB(c))[3]
              /\ box_predictions[c][3] = SqrtPred(PredBox(c, BestOfB(c))[4])
              /\ box_predictions[c][4] = SqrtPred(PredBox(c, BestOfB(c))[5])
        /\ object_loss =
              SumCells([c \in 1..NumCells |->
                  IF HasObject(c) THEN Sq(PredBox(c, BestOfB(c))[1] - target[c][1]) ELSE 0])

\* the three terms, summed cell by cell over the whole batch
RefBoxLoss ==
    SumCells([c \in 1..NumCells |->
        IF HasObject(c)
        THEN Sq(Selected(c)[2] - target[c][2]) + Sq(Selected(c)[3] - target[c][3])
             + Sq(SqrtPred(Selected(c)[4]) - Sqrt(target[c][4]))
             + Sq(SqrtPred(Selected(c)[5]) - Sqrt(target[c][5]))
        ELSE 0])
RefObjectLoss ==
    SumCells([c \in 1..NumCells |-> IF HasObject(c) THEN Sq(Selected(c)[1] - 1) ELSE 0])

\* C8: the returned value is (5 * box_loss + object_loss + 0.5 * no_object_loss) / N,
\* N the batch size, each term a sum of squared differences over all cells and images:
\* (units + fine * 1e-12) / den with units / den = (object + no_object / 2) / N and
\* fine / den = 5 * box / N.
C8_TotalLoss ==
    Returned =>
        /\ box_loss = RefBoxLoss
        /\ object_loss = RefObjectLoss
        /\ no_object_loss = RawNoObjectSum
        /\ loss.den = 2 * BatchSize
        /\ loss.units = 2 * RefObjectLoss + RawNoObjectSum
        /\ loss.fine = 2 * 5 * RefBoxLoss

\* a batch of two images of four cells each, all three terms positive
C8_Witness ==
    /\ Returned
    /\ BatchSize = 2 /\ self.S = 2 /\ NumCells = 8
    /\ box_loss > 0 /\ object_loss > 0 /\ no_object_loss > 0

\* C9: no_object_loss is the sum over the no-object cells of the squares of both raw
\* objectness scores (entries 0 and 5), whichever box is the best one; a cell with an
\* object adds exactly 0.
C9_NoObjectLoss ==
    Returned =>
        no_object_loss =
            SumCells([c \in 1..NumCells |->
                IF target[c][1] = 0 THEN PredAt(c, 1) * PredAt(c, 1) + PredAt(c, 6) * PredAt(c, 6)
                ELSE 0])

\* an object cell with two non-zero objectness scores next to a no-object cell whose
\* best box is box 1 and whose two scores are non-zero
C9_Witness ==
    /\ Returned
    /\ \E c \in 1..NumCells : HasObject(c) /\ PredAt(c, 1) # 0 /\ PredAt(c, 6) # 0
    /\ \E c \in 1..NumCells :
          ~HasObject(c) /\ bestbox[c] = 1 /\ PredAt(c, 1) # 0 /\ PredAt(c, 6) # 0
    /\ no_object_loss > 0

\* C10: the selected width/height v, of any sign, becomes sign(v) * sqrt(|v| + 1e-6),
\* the target width/height sqrt(v), x and y stay as they are, and in a cell with no
\* object both transformed tensors hold 0.
C10_SqrtTransform ==
    Returned =>
        \A c \in 1..NumCells :
            IF HasObject(c)
            THEN /\ box_predictions[c] =
                       <<Selected(c)[2], Selected(c)[3],
                         SqrtPredAbsFirst(Selected(c)[4]), SqrtPredAbsFirst(Selected(c)[5])>>
                 /\ box_targets[c] =
                       <<target[c][2], target[c][3], Sqrt(target[c][4]), Sqrt(target[c][5])>>
            ELSE /\ box_predictions[c][3] = 0 /\ box_predictions[c][4] = 0
                 /\ box_targets[c][3] = 0 /\ box_targets[c][4] = 0

====
